---- MODULE Spec2Model ----
(***************************************************************************)
(* Model of the charlie-renderer Vulkan bootstrap and frame loop           *)
(* (src/src/renderer.rs, src/src/main.rs).                                 *)
(*                                                                         *)
(* The CPU thread is one sequential process whose position is pc: the      *)
(* steps of Renderer::new (or of main), then calls of Renderer::render,    *)
(* then Drop for Renderer.  The GPU and the presentation engine run        *)
(* asynchronously: they consume the graphics queue and signal the fence    *)
(* and the semaphores.                                                     *)
(*                                                                         *)
(* SpecNew is construction, from nothing to the constructed Renderer (or   *)
(* to main's event loop), over every enumerated hardware description.      *)
(* Spec is the life of a constructed Renderer: render() calls, the GPU,    *)
(* and teardown; its Init is the state construction ends in.               *)
(***************************************************************************)
EXTENDS Integers, Sequences, FiniteSets, TLC

\* ------------------------------------------------------------------ bounds
MaxFamilies == 3       \* queue families reported by a physical device
MaxDevices == 3        \* physical devices enumerated
MaxImageCount == 4     \* largest min/max image count a surface reports
MaxFormats == 2        \* surface formats reported
MaxFrames == 3         \* render() calls that may succeed

\* ------------------------------------------------------------- vocabulary
None == -1             \* Option::None for an index

Min(a, b) == IF a < b THEN a ELSE b
Max(a, b) == IF a > b THEN a ELSE b

SeqsUpTo(S, n) == UNION {[1..k -> S] : k \in 0..n}

DeviceTypes == {"DISCRETE_GPU", "INTEGRATED_GPU", "CPU"}

\* One vk::QueueFamilyProperties plus the answer the surface would give to
\* get_physical_device_surface_support for that family.
QueueFamily ==
  [queue_count : {0, 1}, graphics : BOOLEAN, transfer : BOOLEAN,
   surface_support : {"true", "false", "error"}]

\* vk::SurfaceCapabilitiesKHR: min_image_count >= 1, and max_image_count is
\* either 0 (no limit) or at least min_image_count.
SurfaceCapabilities ==
  {c \in [min_image_count : 1..MaxImageCount, max_image_count : 0..MaxImageCount] :
     c.max_image_count = 0 \/ c.max_image_count >= c.min_image_count}

Formats == {"B8G8R8A8_UNORM", "B8G8R8A8_SRGB"}

Obj(name) == [obj |-> name, idx |-> 0]
ImageViewObj(i) == [obj |-> "image_view", idx |-> i]

NoCaps == [min_image_count |-> 0, max_image_count |-> 0]
NoIndices == [graphics |-> None, transfer |-> None]
NoInfo == [min_image_count |-> None, image_format |-> "none"]

VARIABLES
  program,                  \* "renderer" (renderer.rs) or "main" (main.rs)
  pc,                       \* position of the CPU thread
  created, destroyed,       \* API objects created / destroyed so far, in order
  physical_devices,         \* find_physical_device: enumerated device types
  physical_device,          \* selected device index, None before selection
  queue_family_properties,  \* find_queue_family_indices: the queried vector
  graphics_qf_index_opt,    \* find_queue_family_indices: loop result
  transfer_qf_index_opt,    \* find_queue_family_indices: loop result
  queue_family_indices,     \* the QueueFamilyIndices the caller holds
  surface_capabilities,     \* create_swapchain: queried capabilities
  surface_formats,          \* create_swapchain: queried formats
  swapchain_create_info,    \* create_swapchain: the create info built
  swapchain_images,         \* Renderer.swapchain_images
  swapchain_image_views,    \* Renderer.swapchain_image_views
  image_state,              \* available | acquiring | acquired, per image
  frame_number,             \* Renderer.frame_number
  render_fence,             \* "signaled" | "unsignaled"
  present_semaphore,        \* "unsignaled" | "signal_pending" | "signaled"
  render_semaphore,         \* "unsignaled" | "signal_pending" | "signaled"
  command_buffer,           \* state of main_graphics_command_buffer
  recorded,                 \* commands recorded into the command buffer
  graphics_queue,           \* operations queued on the graphics queue, in order
  swapchain_image_index,    \* render(): the acquired image index
  render_result,            \* what the last render() call returned
  frame_number_at_call,     \* frame_number when the current/last call began
  ok_calls,                 \* render() calls that returned Ok so far
  steps,                    \* statements the current/last call executed
  drop_index                \* destroy calls teardown has issued so far

vars == <<program, pc, created, destroyed, physical_devices, physical_device,
          queue_family_properties, graphics_qf_index_opt, transfer_qf_index_opt,
          queue_family_indices, surface_capabilities, surface_formats,
          swapchain_create_info, swapchain_images, swapchain_image_views,
          image_state, frame_number, render_fence, present_semaphore,
          render_semaphore, command_buffer, recorded,
          graphics_queue, swapchain_image_index, render_result, frame_number_at_call,
          ok_calls, steps, drop_index>>

gpuVars == <<image_state, render_fence, present_semaphore, render_semaphore,
             command_buffer, recorded, graphics_queue>>
frameVars == <<frame_number, swapchain_image_index, render_result,
               frame_number_at_call, ok_calls, steps>>
deviceVars == <<physical_devices, physical_device>>
queueVars == <<queue_family_properties, graphics_qf_index_opt,
               transfer_qf_index_opt, queue_family_indices>>
swapVars == <<surface_capabilities, surface_formats, swapchain_create_info,
              swapchain_images, swapchain_image_views>>

\* ------------------------------------------------------------------- Init
\* Before Renderer::new (or main) has done anything.
InitNew ==
  /\ program \in {"renderer", "main"}
  /\ pc = "create_instance"
  /\ created = <<>>
  /\ destroyed = <<>>
  /\ physical_devices = <<>>
  /\ physical_device = None
  /\ queue_family_properties = <<>>
  /\ graphics_qf_index_opt = None
  /\ transfer_qf_index_opt = None
  /\ queue_family_indices = NoIndices
  /\ surface_capabilities = NoCaps
  /\ surface_formats = <<>>
  /\ swapchain_create_info = NoInfo
  /\ swapchain_images = <<>>
  /\ swapchain_image_views = <<>>
  /\ image_state = <<>>
  /\ frame_number = None
  /\ render_fence = "none"
  /\ present_semaphore = "none"
  /\ render_semaphore = "none"
  /\ command_buffer = "none"
  /\ recorded = <<>>
  /\ graphics_queue = <<>>
  /\ swapchain_image_index = None
  /\ render_result = [value |-> "none", at |-> "-"]
  /\ frame_number_at_call = None
  /\ ok_calls = 0
  /\ steps = <<>>
  /\ drop_index = 0

\* ------------------------------------------------ construction: instance
\* create_instance(&entry, &window)?
CreateInstance ==
  /\ pc = "create_instance"
  /\ \E ok \in BOOLEAN :
       IF ok
       THEN /\ created' = Append(created, Obj("instance"))
            /\ pc' = "create_surface"
       ELSE /\ pc' = "new_err"
            /\ UNCHANGED created
  /\ UNCHANGED <<program, destroyed, deviceVars, queueVars, swapVars, gpuVars,
                 frameVars, drop_index>>

\* ash_window::create_surface(&entry, &instance, &window, None)?
CreateSurface ==
  /\ pc = "create_surface"
  /\ \E ok \in BOOLEAN :
       IF ok
       THEN /\ created' = Append(created, Obj("surface"))
            /\ pc' = "find_physical_device"
       ELSE /\ pc' = "new_err"
            /\ UNCHANGED created
  /\ UNCHANGED <<program, destroyed, deviceVars, queueVars, swapVars, gpuVars,
                 frameVars, drop_index>>

\* ----------------------------------------- construction: physical device
\* The position of the first element of s satisfying P, 0-based; None if none.
RECURSIVE FirstDiscrete(_, _)
FirstDiscrete(pds, i) ==
  IF i >= Len(pds) THEN None
  ELSE IF pds[i + 1] = "DISCRETE_GPU" THEN i
  ELSE FirstDiscrete(pds, i + 1)

\* Variant: the first enumerated device is taken whatever its type.
find_physical_device_first(pds) ==
  IF Len(pds) > 0 THEN [status |-> "ok", index |-> 0]
  ELSE [status |-> "panic", index |-> None]

\* find_physical_device: .find(discrete).or_else(next()).expect(..)
\* The result is a device index, or "panic" when expect() fails.
find_physical_device(pds) ==
  LET found == FirstDiscrete(pds, 0) IN
    IF found # None THEN [status |-> "ok", index |-> found]
    ELSE IF Len(pds) > 0 THEN [status |-> "ok", index |-> 0]
    ELSE [status |-> "panic", index |-> None]

\* Variant: the function returns to its caller whatever the selection gave.
FindPhysicalDevice_ReturnsOnEmpty ==
  /\ pc = "find_physical_device"
  /\ \/ /\ pc' = "new_err"
        /\ UNCHANGED deviceVars
     \/ \E pds \in SeqsUpTo(DeviceTypes, MaxDevices) :
          /\ physical_devices' = pds
          /\ physical_device' = find_physical_device(pds).index
          /\ pc' = "find_physical_device_ret"
  /\ UNCHANGED <<program, created, destroyed, queueVars, swapVars, gpuVars,
                 frameVars, drop_index>>

\* The call up to the evaluation of the Ok(..) expression: the enumeration
\* either fails (?) or yields the device list.
FindPhysicalDevice ==
  /\ pc = "find_physical_device"
  /\ \/ /\ pc' = "new_err"
        /\ UNCHANGED deviceVars
     \/ \E pds \in SeqsUpTo(DeviceTypes, MaxDevices) :
          /\ physical_devices' = pds
          /\ physical_device' = find_physical_device(pds).index
          /\ pc' = IF find_physical_device(pds).status = "ok"
                   THEN "find_physical_device_ret" ELSE "new_panic"
  /\ UNCHANGED <<program, created, destroyed, queueVars, swapVars, gpuVars,
                 frameVars, drop_index>>

\* The function returns: its locals go out of scope.
FindPhysicalDeviceReturn ==
  /\ pc = "find_physical_device_ret"
  /\ physical_devices' = <<>>
  /\ pc' = "find_queue_family_indices"
  /\ UNCHANGED <<program, created, destroyed, physical_device, queueVars,
                 swapVars, gpuVars, frameVars, drop_index>>

\* ------------------------------------------- construction: queue families
\* The for loop of find_queue_family_indices from family `index` on, with
\* the two Option locals g (graphics) and t (transfer).  A failing
\* get_physical_device_surface_support leaves the function at once (?).
RECURSIVE QueueFamilyLoop(_, _, _, _)
QueueFamilyLoop(qfp, index, g, t) ==
  IF index >= Len(qfp)
  THEN [status |-> "ok", graphics |-> g, transfer |-> t]
  ELSE LET qfam == qfp[index + 1] IN
    IF qfam.queue_count > 0
    THEN IF qfam.graphics /\ qfam.surface_support = "error"
         THEN [status |-> "err", graphics |-> g, transfer |-> t]
         ELSE LET g2 == IF qfam.graphics /\ qfam.surface_support = "true"
                        THEN index ELSE g
                  t2 == IF qfam.transfer /\ (t = None \/ ~qfam.graphics)
                        THEN index ELSE t
              IN QueueFamilyLoop(qfp, index + 1, g2, t2)
    ELSE QueueFamilyLoop(qfp, index + 1, g, t)

\* Variant of the loop: the graphics role keeps its first match, and the
\* transfer role is overwritten by every family with the transfer bit.
RECURSIVE QueueFamilyLoop_Swapped(_, _, _, _)
QueueFamilyLoop_Swapped(qfp, index, g, t) ==
  IF index >= Len(qfp)
  THEN [status |-> "ok", graphics |-> g, transfer |-> t]
  ELSE LET qfam == qfp[index + 1] IN
    IF qfam.queue_count > 0
    THEN IF qfam.graphics /\ qfam.surface_support = "error"
         THEN [status |-> "err", graphics |-> g, transfer |-> t]
         ELSE LET g2 == IF qfam.graphics /\ qfam.surface_support = "true"
                           /\ g = None
                        THEN index ELSE g
                  t2 == IF qfam.transfer THEN index ELSE t
              IN QueueFamilyLoop_Swapped(qfp, index + 1, g2, t2)
    ELSE QueueFamilyLoop_Swapped(qfp, index + 1, g, t)

find_queue_family_indices_swapped(qfp) ==
  QueueFamilyLoop_Swapped(qfp, 0, None, None)

find_queue_family_indices(qfp) == QueueFamilyLoop(qfp, 0, None, None)

\* The call up to the end of the loop: the locals hold the loop's result.
FindQueueFamilyIndices ==
  /\ pc = "find_queue_family_indices"
  /\ \E qfp \in SeqsUpTo(QueueFamily, MaxFamilies) :
       LET r == find_queue_family_indices(qfp) IN
         IF r.status = "ok"
         THEN /\ queue_family_properties' = qfp
              /\ graphics_qf_index_opt' = r.graphics
              /\ transfer_qf_index_opt' = r.transfer
              /\ pc' = "find_queue_family_indices_ret"
         ELSE /\ pc' = "new_err"
              /\ UNCHANGED <<queue_family_properties, graphics_qf_index_opt,
                             transfer_qf_index_opt>>
  /\ UNCHANGED <<program, created, destroyed, deviceVars, queue_family_indices,
                 swapVars, gpuVars, frameVars, drop_index>>

\* Ok(QueueFamilyIndices { graphics: ..unwrap(), transfer: ..unwrap() }):
\* unwrap() of None panics; otherwise the caller receives the indices.
FindQueueFamilyIndicesReturn ==
  /\ pc = "find_queue_family_indices_ret"
  /\ IF graphics_qf_index_opt = None \/ transfer_qf_index_opt = None
     THEN /\ pc' = "new_panic"
          /\ UNCHANGED queue_family_indices
     ELSE /\ pc' = "create_device"
          /\ queue_family_indices' = [graphics |-> graphics_qf_index_opt,
                                      transfer |-> transfer_qf_index_opt]
  /\ queue_family_properties' = <<>>
  /\ graphics_qf_index_opt' = None
  /\ transfer_qf_index_opt' = None
  /\ UNCHANGED <<program, created, destroyed, deviceVars, swapVars, gpuVars,
                 frameVars, drop_index>>

\* ------------------------------------------------- construction: device
\* let queue_infos = [DeviceQueueCreateInfo(graphics), (transfer)]: always
\* the two entries, one per role, in this order.
queue_infos(indices) ==
  << [queue_family_index |-> indices.graphics],
     [queue_family_index |-> indices.transfer] >>

\* create_device(..)? (renderer.rs) / create_logical_device(..)? (main.rs)
CreateDevice ==
  /\ pc = "create_device"
  /\ \E ok \in BOOLEAN :
       IF ok
       THEN /\ created' = Append(created, Obj("device"))
            /\ pc' = "create_swapchain"
       ELSE /\ pc' = "new_err"
            /\ UNCHANGED created
  /\ UNCHANGED <<program, destroyed, deviceVars, queueVars, swapVars, gpuVars,
                 frameVars, drop_index>>

\* ---------------------------------------------- construction: swapchain
\* Variant: the upper clamp is left out.
min_image_count_no_upper(caps) == Max(3, caps.min_image_count)

\* .min_image_count(3.max(min_image_count).min(max_image_count))
min_image_count(caps) ==
  Min(Max(3, caps.min_image_count), caps.max_image_count)

\* The image_format of the create info: surface_formats.first().unwrap().format
image_format(formats) == formats[1]

\* The format every image view is created with.
view_format == "B8G8R8A8_UNORM"

\* The numbers of images a swapchain created with `requested` may hold.  A
\* valid request yields at least that many images and at most the surface
\* maximum.  A request below the surface minimum is invalid usage: the
\* driver's behaviour is undefined, so if creation succeeds at all it may
\* hold any number of images the surface allows.
SwapchainImageCounts(requested, caps) ==
  LET top == IF caps.max_image_count = 0 THEN MaxImageCount
             ELSE caps.max_image_count
      low == Max(requested, caps.min_image_count)
  IN low..top

\* The two surface queries (each may fail with ?) and the create info.
\* first().unwrap() panics on an empty format list.
CreateSwapchainInfo ==
  /\ pc = "create_swapchain"
  /\ \/ /\ pc' = "new_err"
        /\ UNCHANGED swapVars
     \/ \E caps \in SurfaceCapabilities, formats \in SeqsUpTo(Formats, MaxFormats) :
          /\ surface_capabilities' = caps
          /\ surface_formats' = formats
          /\ IF formats = <<>>
             THEN /\ pc' = "new_panic"
                  /\ UNCHANGED swapchain_create_info
             ELSE /\ pc' = "create_swapchain_khr"
                  /\ swapchain_create_info' =
                       [min_image_count |-> min_image_count(caps),
                        image_format |-> image_format(formats)]
          /\ UNCHANGED <<swapchain_images, swapchain_image_views>>
  /\ UNCHANGED <<program, created, destroyed, deviceVars, queueVars, gpuVars,
                 frameVars, drop_index>>

ViewObjs(n) == [i \in 1..n |-> ImageViewObj(i - 1)]

\* Variant: the views are collected in the reverse of the image order.
create_image_views_reversed(images) ==
  [i \in 1..Len(images) |->
     [image |-> images[Len(images) + 1 - i], format |-> view_format]]

\* swapchain_images.iter().map(|image| create_image_view(.image(*image)))
\* .collect(): one view per image, in image order.
create_image_views(images) ==
  [i \in 1..Len(images) |-> [image |-> images[i], format |-> view_format]]

\* create_swapchain(..)?, get_swapchain_images(..)?, then one
\* create_image_view(..).unwrap() per image, in image order.
\* failAt: 0 nothing fails, 1 create_swapchain fails, 2 get_swapchain_images
\* fails, 2 + k the creation of view k fails (k = 1..n).
CreateSwapchainKHR ==
  /\ pc = "create_swapchain_khr"
  /\ \E n \in SwapchainImageCounts(swapchain_create_info.min_image_count,
                                   surface_capabilities),
        failAt \in 0..(2 + MaxImageCount) :
       /\ failAt <= 2 + n
       /\ CASE failAt = 1 ->
                 /\ pc' = "new_err"
                 /\ UNCHANGED <<created, swapchain_images, swapchain_image_views,
                                image_state>>
            [] failAt = 2 ->
                 /\ pc' = "new_err"
                 /\ created' = Append(created, Obj("swapchain"))
                 /\ UNCHANGED <<swapchain_images, swapchain_image_views,
                                image_state>>
            [] failAt > 2 ->
                 /\ pc' = "new_panic"
                 /\ created' = created \o <<Obj("swapchain")>>
                                 \o SubSeq(ViewObjs(n), 1, failAt - 3)
                 /\ UNCHANGED <<swapchain_images, swapchain_image_views,
                                image_state>>
            [] OTHER ->
                 /\ pc' = "create_swapchain_ret"
                 /\ created' = created \o <<Obj("swapchain")>> \o ViewObjs(n)
                 /\ swapchain_images' = [i \in 1..n |-> i - 1]
                 /\ swapchain_image_views' =
                      create_image_views([i \in 1..n |-> i - 1])
                 /\ image_state' = [i \in 1..n |-> "available"]
  /\ UNCHANGED <<program, destroyed, deviceVars, queueVars, surface_capabilities,
                 surface_formats, swapchain_create_info, render_fence,
                 present_semaphore, render_semaphore, command_buffer,
                 recorded, graphics_queue, frameVars, drop_index>>

\* create_swapchain returns (renderer.rs), or main reaches its event loop.
CreateSwapchainReturn ==
  /\ pc = "create_swapchain_ret"
  /\ surface_capabilities' = NoCaps
  /\ surface_formats' = <<>>
  /\ swapchain_create_info' = NoInfo
  /\ pc' = IF program = "renderer" THEN "create_command_pool" ELSE "event_loop"
  /\ UNCHANGED <<program, created, destroyed, deviceVars, queueVars,
                 swapchain_images, swapchain_image_views, gpuVars, frameVars,
                 drop_index>>

\* ------------------------------- construction: pool, sync objects, shaders
\* create_command_pool(..)? then allocate_command_buffers(..)?[0]
CreateCommandPool ==
  /\ pc = "create_command_pool"
  /\ \E failAt \in 0..2 :
       CASE failAt = 1 ->
              /\ pc' = "new_err"
              /\ UNCHANGED <<created, command_buffer>>
         [] failAt = 2 ->
              /\ pc' = "new_err"
              /\ created' = Append(created, Obj("command_pool"))
              /\ UNCHANGED command_buffer
         [] OTHER ->
              /\ pc' = "create_sync_objects"
              /\ created' = Append(created, Obj("command_pool"))
              /\ command_buffer' = "initial"
  /\ UNCHANGED <<program, destroyed, deviceVars, queueVars, swapVars,
                 image_state, render_fence, present_semaphore, render_semaphore,
                 recorded, graphics_queue, frameVars, drop_index>>

\* The objects create_semaphore / create_semaphore / create_fence make, in
\* the order of the calls.
SyncObjects == <<Obj("present_semaphore"), Obj("render_semaphore"),
                 Obj("render_fence")>>

\* Variant: the fence is created with empty flags.
InitialFenceState_Unsignaled == "unsignaled"

\* The state the fence is created in: FenceCreateFlags::SIGNALED.
InitialFenceState == "signaled"

\* present_semaphore, render_semaphore, render_fence, each with ?.
\* failAt = k: the k-th creation fails (0: none does).
CreateSyncObjects ==
  /\ pc = "create_sync_objects"
  /\ \E failAt \in 0..3 :
       IF failAt = 0
       THEN /\ pc' = "create_shader_modules"
            /\ created' = created \o SyncObjects
            /\ present_semaphore' = "unsignaled"
            /\ render_semaphore' = "unsignaled"
            /\ render_fence' = InitialFenceState
       ELSE /\ pc' = "new_err"
            /\ created' = created \o SubSeq(SyncObjects, 1, failAt - 1)
            /\ UNCHANGED <<present_semaphore, render_semaphore, render_fence>>
  /\ UNCHANGED <<program, destroyed, deviceVars, queueVars, swapVars,
                 image_state, command_buffer, recorded, graphics_queue,
                 frameVars, drop_index>>

\* The two shader modules are created (each with ?), destroyed again, and
\* the Renderer is returned with frame_number: 0.
CreateShaderModules ==
  /\ pc = "create_shader_modules"
  /\ \E failAt \in 0..2 :
       CASE failAt = 1 ->
              /\ pc' = "new_err"
              /\ UNCHANGED <<created, destroyed, frame_number>>
         [] failAt = 2 ->
              /\ pc' = "new_err"
              /\ created' = Append(created, Obj("triangle_vert_shader"))
              /\ UNCHANGED <<destroyed, frame_number>>
         [] OTHER ->
              /\ pc' = "idle"
              /\ created' = created \o <<Obj("triangle_vert_shader"),
                                         Obj("triangle_frag_shader")>>
              /\ destroyed' = destroyed \o <<Obj("triangle_vert_shader"),
                                             Obj("triangle_frag_shader")>>
              /\ frame_number' = 0
  /\ UNCHANGED <<program, deviceVars, queueVars, swapVars, gpuVars,
                 swapchain_image_index, render_result, frame_number_at_call,
                 ok_calls, steps, drop_index>>

\* ------------------------------------------------------------- render()
NoResult == [value |-> "none", at |-> "-"]
Running == [value |-> "running", at |-> "-"]

\* render() returns `result` to its caller from the statement at pc; the
\* local swapchain_image_index goes out of scope.  ok_calls counts the
\* calls that returned Ok.
ReturnFromRender(result) ==
  /\ pc' = "idle"
  /\ render_result' = [value |-> result, at |-> pc]
  /\ ok_calls' = IF result = "Ok" THEN ok_calls + 1 ELSE ok_calls
  /\ steps' = Append(steps, pc)
  /\ swapchain_image_index' = None

\* The call goes on to its next statement.
Continue(next) ==
  /\ pc' = next
  /\ steps' = Append(steps, pc)
  /\ UNCHANGED <<render_result, swapchain_image_index, ok_calls>>

\* The caller invokes render() between calls.
RenderCall ==
  /\ pc = "idle"
  /\ frame_number < MaxFrames
  /\ pc' = "wait_for_fences"
  /\ frame_number_at_call' = frame_number
  /\ render_result' = Running
  /\ steps' = <<>>
  /\ UNCHANGED <<program, created, destroyed, deviceVars, queueVars, swapVars,
                 gpuVars, frame_number, swapchain_image_index, ok_calls,
                 drop_index>>

\* Variant: the wait returns SUCCESS whether or not the fence is signaled.
FenceWaitSatisfied_NoWait == render_fence \in {"signaled", "unsignaled"}

\* wait_for_fences returns SUCCESS only once the fence is signaled.
FenceWaitSatisfied == render_fence = "signaled"

\* Variant: after a successful wait the call goes straight to the acquire.
WaitForFences_SkipsReset ==
  /\ pc = "wait_for_fences"
  /\ \/ /\ FenceWaitSatisfied
        /\ Continue("acquire_next_image")
     \/ /\ render_fence = "unsignaled"
        /\ ReturnFromRender("Err(TIMEOUT)")
     \/ ReturnFromRender("Err(ERROR)")
  /\ UNCHANGED <<program, created, destroyed, deviceVars, queueVars, swapVars,
                 gpuVars, frame_number, frame_number_at_call, drop_index>>

\* wait_for_fences(&[render_fence], true, ONE_SECOND)?: success when the
\* fence is signaled, TIMEOUT when the second passes first, or an API error.
WaitForFences ==
  /\ pc = "wait_for_fences"
  /\ \/ /\ FenceWaitSatisfied
        /\ Continue("reset_fences")
     \/ /\ render_fence = "unsignaled"
        /\ ReturnFromRender("Err(TIMEOUT)")
     \/ ReturnFromRender("Err(ERROR)")
  /\ UNCHANGED <<program, created, destroyed, deviceVars, queueVars, swapVars,
                 gpuVars, frame_number, frame_number_at_call, drop_index>>

\* Variant: the fence is left as it is.
ResetFences_NoReset ==
  /\ pc = "reset_fences"
  /\ \/ /\ UNCHANGED render_fence
        /\ Continue("acquire_next_image")
     \/ /\ ReturnFromRender("Err(ERROR)")
        /\ UNCHANGED render_fence
  /\ UNCHANGED <<program, created, destroyed, deviceVars, queueVars, swapVars,
                 image_state, present_semaphore, render_semaphore,
                 command_buffer, recorded, graphics_queue, frame_number,
                 frame_number_at_call, drop_index>>

\* reset_fences(&[render_fence])?
ResetFences ==
  /\ pc = "reset_fences"
  /\ \/ /\ render_fence' = "unsignaled"
        /\ Continue("acquire_next_image")
     \/ /\ ReturnFromRender("Err(ERROR)")
        /\ UNCHANGED render_fence
  /\ UNCHANGED <<program, created, destroyed, deviceVars, queueVars, swapVars,
                 image_state, present_semaphore, render_semaphore,
                 command_buffer, recorded, graphics_queue, frame_number,
                 frame_number_at_call, drop_index>>

\* A signal operation is queued on a binary semaphore: the payload changes
\* only when the operation executes, so a semaphore that nobody waited on
\* since its last signal still reads signaled.
SignalQueued(semaphore) ==
  IF semaphore = "signaled" THEN "signaled" ELSE "signal_pending"

\* Variant: an acquire that times out is tried again.
AcquireNextImage_Retries ==
  /\ pc = "acquire_next_image"
  /\ \/ \E i \in 1..Len(image_state) :
          /\ image_state[i] = "available"
          /\ image_state' = [image_state EXCEPT ![i] = "acquiring"]
          /\ swapchain_image_index' = i - 1
          /\ present_semaphore' = SignalQueued(present_semaphore)
          /\ pc' = "reset_command_buffer"
          /\ steps' = Append(steps, pc)
          /\ UNCHANGED <<render_result, ok_calls>>
     \/ /\ Continue("acquire_next_image")
        /\ UNCHANGED <<image_state, present_semaphore>>
     \/ /\ ReturnFromRender("Err(ERROR)")
        /\ UNCHANGED <<image_state, present_semaphore>>
  /\ UNCHANGED <<program, created, destroyed, deviceVars, queueVars, swapVars,
                 render_fence, render_semaphore, command_buffer, recorded,
                 graphics_queue, frame_number, frame_number_at_call,
                 drop_index>>

\* acquire_next_image(swapchain, ONE_SECOND, present_semaphore, null)?:
\* an available image is handed out (its index is returned before the
\* presentation engine is done with it) and the semaphore will be signaled,
\* or no image came within the second (TIMEOUT), or an API error.
AcquireNextImage ==
  /\ pc = "acquire_next_image"
  /\ \/ \E i \in 1..Len(image_state) :
          /\ image_state[i] = "available"
          /\ image_state' = [image_state EXCEPT ![i] = "acquiring"]
          /\ swapchain_image_index' = i - 1
          /\ present_semaphore' = SignalQueued(present_semaphore)
          /\ pc' = "reset_command_buffer"
          /\ steps' = Append(steps, pc)
          /\ UNCHANGED <<render_result, ok_calls>>
     \/ /\ ReturnFromRender("Err(TIMEOUT)")
        /\ UNCHANGED <<image_state, present_semaphore>>
     \/ /\ ReturnFromRender("Err(ERROR)")
        /\ UNCHANGED <<image_state, present_semaphore>>
  /\ UNCHANGED <<program, created, destroyed, deviceVars, queueVars, swapVars,
                 render_fence, render_semaphore, command_buffer, recorded,
                 graphics_queue, frame_number, frame_number_at_call,
                 drop_index>>

\* reset_command_buffer(main_graphics_command_buffer, empty)?
ResetCommandBuffer ==
  /\ pc = "reset_command_buffer"
  /\ \/ /\ command_buffer' = "initial"
        /\ recorded' = <<>>
        /\ Continue("begin_command_buffer")
     \/ /\ ReturnFromRender("Err(ERROR)")
        /\ UNCHANGED <<command_buffer, recorded>>
  /\ UNCHANGED <<program, created, destroyed, deviceVars, queueVars, swapVars,
                 image_state, render_fence, present_semaphore, render_semaphore,
                 graphics_queue, frame_number,
                 frame_number_at_call, drop_index>>

\* begin_command_buffer(.., ONE_TIME_SUBMIT)?
BeginCommandBuffer ==
  /\ pc = "begin_command_buffer"
  /\ \/ /\ command_buffer' = "recording"
        /\ Continue("record")
     \/ /\ ReturnFromRender("Err(ERROR)")
        /\ UNCHANGED command_buffer
  /\ UNCHANGED <<program, created, destroyed, deviceVars, queueVars, swapVars,
                 image_state, render_fence, present_semaphore, render_semaphore,
                 recorded, graphics_queue, frame_number,
                 frame_number_at_call, drop_index>>

\* Variant: the barrier after the render pass names the first image of the
\* swapchain whichever image was acquired.
RecordedCommands_FirstImage(index) ==
  << [cmd |-> "pipeline_barrier", image |-> swapchain_images[index + 1],
      old_layout |-> "UNDEFINED", new_layout |-> "COLOR_ATTACHMENT_OPTIMAL"],
     [cmd |-> "begin_rendering",
      image |-> swapchain_image_views[index + 1].image,
      old_layout |-> "-", new_layout |-> "-"],
     [cmd |-> "end_rendering",
      image |-> swapchain_image_views[index + 1].image,
      old_layout |-> "-", new_layout |-> "-"],
     [cmd |-> "pipeline_barrier", image |-> swapchain_images[1],
      old_layout |-> "COLOR_ATTACHMENT_OPTIMAL",
      new_layout |-> "PRESENT_SRC_KHR"] >>

\* The commands between begin and end: barrier, begin/end rendering, barrier.
RecordedCommands(index) ==
  << [cmd |-> "pipeline_barrier", image |-> swapchain_images[index + 1],
      old_layout |-> "UNDEFINED", new_layout |-> "COLOR_ATTACHMENT_OPTIMAL"],
     [cmd |-> "begin_rendering",
      image |-> swapchain_image_views[index + 1].image,
      old_layout |-> "-", new_layout |-> "-"],
     [cmd |-> "end_rendering",
      image |-> swapchain_image_views[index + 1].image,
      old_layout |-> "-", new_layout |-> "-"],
     [cmd |-> "pipeline_barrier", image |-> swapchain_images[index + 1],
      old_layout |-> "COLOR_ATTACHMENT_OPTIMAL",
      new_layout |-> "PRESENT_SRC_KHR"] >>

\* cmd_pipeline_barrier, cmd_begin_rendering, cmd_end_rendering,
\* cmd_pipeline_barrier: none of them can fail.
RecordCommands ==
  /\ pc = "record"
  /\ recorded' = RecordedCommands(swapchain_image_index)
  /\ Continue("end_command_buffer")
  /\ UNCHANGED <<program, created, destroyed, deviceVars, queueVars, swapVars,
                 image_state, render_fence, present_semaphore, render_semaphore,
                 command_buffer, graphics_queue, frame_number,
                 frame_number_at_call, drop_index>>

\* end_command_buffer(main_graphics_command_buffer)?
EndCommandBuffer ==
  /\ pc = "end_command_buffer"
  /\ \/ /\ command_buffer' = "executable"
        /\ Continue("queue_submit")
     \/ /\ ReturnFromRender("Err(ERROR)")
        /\ UNCHANGED command_buffer
  /\ UNCHANGED <<program, created, destroyed, deviceVars, queueVars, swapVars,
                 image_state, render_fence, present_semaphore, render_semaphore,
                 recorded, graphics_queue, frame_number,
                 frame_number_at_call, drop_index>>

QueueOp(op, index) == [op |-> op, stage |-> "queued", image |-> index]

\* queue_submit(graphics_queue, &[submit_info], render_fence)?: the batch
\* waits for present_semaphore, signals render_semaphore and the fence.
QueueSubmit ==
  /\ pc = "queue_submit"
  /\ \/ /\ graphics_queue' =
             Append(graphics_queue, QueueOp("submit", swapchain_image_index))
        /\ command_buffer' = "pending"
        /\ render_semaphore' = SignalQueued(render_semaphore)
        /\ Continue("queue_present")
     \/ /\ ReturnFromRender("Err(ERROR)")
        /\ UNCHANGED <<graphics_queue, command_buffer, render_semaphore>>
  /\ UNCHANGED <<program, created, destroyed, deviceVars, queueVars, swapVars,
                 image_state, render_fence, present_semaphore, recorded,
                 frame_number, frame_number_at_call, drop_index>>

\* Variant: the counter is advanced before the present, so a failing
\* present returns its error with the counter already advanced.
QueuePresent_CountsFirst ==
  /\ pc = "queue_present"
  /\ frame_number' = frame_number + 1
  /\ \/ /\ graphics_queue' =
             Append(graphics_queue, QueueOp("present", swapchain_image_index))
        /\ ReturnFromRender("Ok")
     \/ /\ graphics_queue' =
             Append(graphics_queue, QueueOp("present", swapchain_image_index))
        /\ ReturnFromRender("Err(ERROR)")
     \/ /\ ReturnFromRender("Err(ERROR)")
        /\ UNCHANGED graphics_queue
  /\ UNCHANGED <<program, created, destroyed, deviceVars, queueVars, swapVars,
                 image_state, render_fence, present_semaphore, render_semaphore,
                 command_buffer, recorded, frame_number_at_call, drop_index>>

\* queue_present(graphics_queue, &present_info)?: the present waits for
\* render_semaphore.  A failing call may (OUT_OF_DATE, SURFACE_LOST) or may
\* not (DEVICE_LOST, out of memory) have queued its semaphore wait.
QueuePresent ==
  /\ pc = "queue_present"
  /\ \/ /\ graphics_queue' =
             Append(graphics_queue, QueueOp("present", swapchain_image_index))
        /\ Continue("increment")
     \/ /\ graphics_queue' =
             Append(graphics_queue, QueueOp("present", swapchain_image_index))
        /\ ReturnFromRender("Err(ERROR)")
     \/ /\ ReturnFromRender("Err(ERROR)")
        /\ UNCHANGED graphics_queue
  /\ UNCHANGED <<program, created, destroyed, deviceVars, queueVars, swapVars,
                 image_state, render_fence, present_semaphore, render_semaphore,
                 command_buffer, recorded, frame_number,
                 frame_number_at_call, drop_index>>

\* Variant: the counter is advanced by two.
IncrementFrameNumber_ByTwo ==
  /\ pc = "increment"
  /\ frame_number' = frame_number + 2
  /\ ReturnFromRender("Ok")
  /\ UNCHANGED <<program, created, destroyed, deviceVars, queueVars, swapVars,
                 gpuVars, frame_number_at_call, drop_index>>

\* self.frame_number += 1; Ok(())
IncrementFrameNumber ==
  /\ pc = "increment"
  /\ frame_number' = frame_number + 1
  /\ ReturnFromRender("Ok")
  /\ UNCHANGED <<program, created, destroyed, deviceVars, queueVars, swapVars,
                 gpuVars, frame_number_at_call, drop_index>>

\* ------------------------------------------ GPU and presentation engine
\* Operations of one queue begin in submission order, and nothing but a
\* semaphore orders the end of one against the start of the next: operation
\* k may begin once every operation queued before it has begun.
InIssueOrder(k) ==
  \A j \in 1..(k - 1) : graphics_queue[j].stage = "executing"

RemoveAt(queue, k) == SubSeq(queue, 1, k - 1) \o SubSeq(queue, k + 1, Len(queue))

\* The presentation engine completes the acquisition: the image is free to
\* be written and the semaphore given to acquire_next_image is signaled.
AcquireCompletes ==
  /\ present_semaphore = "signal_pending"
  /\ present_semaphore' = "signaled"
  /\ image_state' = [i \in 1..Len(image_state) |->
                       IF image_state[i] = "acquiring" THEN "acquired"
                       ELSE image_state[i]]
  /\ UNCHANGED <<program, pc, created, destroyed, deviceVars, queueVars,
                 swapVars, render_fence, render_semaphore,
                 command_buffer, recorded, graphics_queue, frameVars,
                 drop_index>>

\* The submitted batch passes its semaphore wait (wait_semaphores =
\* present_semaphore at COLOR_ATTACHMENT_OUTPUT) and starts to execute.
GpuBeginSubmit ==
  /\ \E k \in 1..Len(graphics_queue) :
       /\ graphics_queue[k].op = "submit"
       /\ graphics_queue[k].stage = "queued"
       /\ InIssueOrder(k)
       /\ graphics_queue' = [graphics_queue EXCEPT ![k].stage = "executing"]
  /\ present_semaphore = "signaled"
  /\ present_semaphore' = "unsignaled"
  /\ UNCHANGED <<program, pc, created, destroyed, deviceVars, queueVars,
                 swapVars, image_state, render_fence, render_semaphore,
                 command_buffer, recorded, frameVars, drop_index>>

\* The batch completes: signal_semaphores = render_semaphore and the fence
\* of queue_submit are signaled; a ONE_TIME_SUBMIT buffer becomes invalid.
GpuCompleteSubmit ==
  /\ \E k \in 1..Len(graphics_queue) :
       /\ graphics_queue[k].op = "submit"
       /\ graphics_queue[k].stage = "executing"
       /\ graphics_queue' = RemoveAt(graphics_queue, k)
  /\ render_semaphore' = "signaled"
  /\ render_fence' = "signaled"
  /\ command_buffer' = "invalid"
  /\ UNCHANGED <<program, pc, created, destroyed, deviceVars, queueVars,
                 swapVars, image_state, present_semaphore, recorded,
                 frameVars, drop_index>>

\* The present request passes its wait for render_semaphore (wait_semaphores
\* of the present info); the image is shown and goes back to the swapchain.
GpuPresent ==
  /\ \E k \in 1..Len(graphics_queue) :
       /\ graphics_queue[k].op = "present"
       /\ InIssueOrder(k)
       /\ graphics_queue' = RemoveAt(graphics_queue, k)
       /\ image_state' = [image_state EXCEPT
                            ![graphics_queue[k].image + 1] = "available"]
  /\ render_semaphore = "signaled"
  /\ render_semaphore' = "unsignaled"
  /\ UNCHANGED <<program, pc, created, destroyed, deviceVars, queueVars,
                 swapVars, render_fence, present_semaphore, command_buffer,
                 recorded, frameVars, drop_index>>

\* ------------------------------------------------------ Drop for Renderer
\* The Renderer is dropped between two render() calls.
DropCall ==
  /\ pc = "idle"
  /\ pc' = "device_wait_idle"
  /\ UNCHANGED <<program, created, destroyed, deviceVars, queueVars, swapVars,
                 gpuVars, frameVars, drop_index>>

\* Variant: device_wait_idle returns at once, whatever is queued.
DeviceIdle_NoWait == Len(graphics_queue) >= 0

\* device_wait_idle returns SUCCESS only once no queue has work left.
DeviceIdle == graphics_queue = <<>>

\* self.device.device_wait_idle().unwrap(): blocks until the device is
\* idle; an error result panics, and nothing is destroyed.
DeviceWaitIdle ==
  /\ pc = "device_wait_idle"
  /\ \/ /\ DeviceIdle
        /\ pc' = "destroy"
     \/ pc' = "drop_panic"
  /\ UNCHANGED <<program, created, destroyed, deviceVars, queueVars, swapVars,
                 gpuVars, frameVars, drop_index>>

\* Variant: the command pool is destroyed before the semaphores and the fence.
DropOrder_PoolFirst(views) ==
  <<Obj("command_pool"), Obj("render_semaphore"), Obj("present_semaphore"),
    Obj("render_fence")>>
  \o [i \in 1..Len(views) |-> ImageViewObj(i - 1)]
  \o <<Obj("swapchain"), Obj("device"), Obj("surface"), Obj("instance")>>

\* Variant: the device is destroyed before the swapchain.
DropOrder_DeviceFirst(views) ==
  <<Obj("render_semaphore"), Obj("present_semaphore"), Obj("render_fence"),
    Obj("command_pool")>>
  \o [i \in 1..Len(views) |-> ImageViewObj(i - 1)]
  \o <<Obj("device"), Obj("swapchain"), Obj("surface"), Obj("instance")>>

\* The destroy calls of drop(), in the order of the statements.
DropOrder(views) ==
  <<Obj("render_semaphore"), Obj("present_semaphore"), Obj("render_fence"),
    Obj("command_pool")>>
  \o [i \in 1..Len(views) |-> ImageViewObj(i - 1)]
  \o <<Obj("swapchain"), Obj("device"), Obj("surface"), Obj("instance")>>

\* The next destroy call of drop().
DropDestroy ==
  /\ pc = "destroy"
  /\ LET order == DropOrder(swapchain_image_views) IN
       /\ destroyed' = Append(destroyed, order[drop_index + 1])
       /\ drop_index' = drop_index + 1
       /\ pc' = IF drop_index + 1 = Len(order) THEN "dropped" ELSE "destroy"
  /\ UNCHANGED <<program, created, deviceVars, queueVars, swapVars, gpuVars,
                 frameVars>>

\* ------------------------------------------- main.rs: CloseRequested
\* The event loop delivers WindowEvent::CloseRequested for the window.
CloseRequested ==
  /\ pc = "event_loop"
  /\ pc' = "close_requested"
  /\ UNCHANGED <<program, created, destroyed, deviceVars, queueVars, swapVars,
                 gpuVars, frameVars, drop_index>>

\* The destroy calls of the CloseRequested handler, in statement order.
MainDropOrder(views) ==
  [i \in 1..Len(views) |-> ImageViewObj(i - 1)]
  \o <<Obj("swapchain"), Obj("device"), Obj("surface"), Obj("instance")>>

\* The next destroy call of the handler; ControlFlow::Exit after the last.
MainDestroy ==
  /\ pc = "close_requested"
  /\ LET order == MainDropOrder(swapchain_image_views) IN
       /\ destroyed' = Append(destroyed, order[drop_index + 1])
       /\ drop_index' = drop_index + 1
       /\ pc' = IF drop_index + 1 = Len(order) THEN "exited"
                ELSE "close_requested"
  /\ UNCHANGED <<program, created, deviceVars, queueVars, swapVars, gpuVars,
                 frameVars>>

\* ------------------------------------------------------- specifications
NextNew ==
  \/ CreateInstance
  \/ CreateSurface
  \/ FindPhysicalDevice
  \/ FindPhysicalDeviceReturn
  \/ FindQueueFamilyIndices
  \/ FindQueueFamilyIndicesReturn
  \/ CreateDevice
  \/ CreateSwapchainInfo
  \/ CreateSwapchainKHR
  \/ CreateSwapchainReturn
  \/ CreateCommandPool
  \/ CreateSyncObjects
  \/ CreateShaderModules

SpecNew == InitNew /\ [][NextNew]_vars

\* What construction leaves behind when it succeeds with n swapchain images,
\* apart from the device and queue family indices it selected.
Constructed(n) ==
  /\ pc = IF program = "renderer" THEN "idle" ELSE "event_loop"
  /\ created =
       <<Obj("instance"), Obj("surface"), Obj("device"), Obj("swapchain")>>
       \o ViewObjs(n)
       \o (IF program = "renderer"
           THEN <<Obj("command_pool")>> \o SyncObjects
                  \o <<Obj("triangle_vert_shader"), Obj("triangle_frag_shader")>>
           ELSE <<>>)
  /\ destroyed =
       IF program = "renderer"
       THEN <<Obj("triangle_vert_shader"), Obj("triangle_frag_shader")>>
       ELSE <<>>
  /\ physical_devices = <<>>
  /\ queue_family_properties = <<>>
  /\ graphics_qf_index_opt = None
  /\ transfer_qf_index_opt = None
  /\ surface_capabilities = NoCaps
  /\ surface_formats = <<>>
  /\ swapchain_create_info = NoInfo
  /\ swapchain_images = [i \in 1..n |-> i - 1]
  /\ swapchain_image_views = create_image_views([i \in 1..n |-> i - 1])
  /\ image_state = [i \in 1..n |-> "available"]
  /\ frame_number = IF program = "renderer" THEN 0 ELSE None
  /\ render_fence = IF program = "renderer" THEN InitialFenceState ELSE "none"
  /\ present_semaphore = IF program = "renderer" THEN "unsignaled" ELSE "none"
  /\ render_semaphore = IF program = "renderer" THEN "unsignaled" ELSE "none"
  /\ command_buffer = IF program = "renderer" THEN "initial" ELSE "none"
  /\ recorded = <<>>
  /\ graphics_queue = <<>>
  /\ swapchain_image_index = None
  /\ render_result = [value |-> "none", at |-> "-"]
  /\ frame_number_at_call = None
  /\ ok_calls = 0
  /\ steps = <<>>
  /\ drop_index = 0

\* Construction, when it succeeds, ends in a Constructed state.
ConstructionEndsConstructed ==
  pc \in {"idle", "event_loop"} =>
    /\ Len(swapchain_images) \in 1..MaxImageCount
    /\ Constructed(Len(swapchain_images))
    /\ physical_device \in 0..(MaxDevices - 1)
    /\ queue_family_indices.graphics \in 0..(MaxFamilies - 1)
    /\ queue_family_indices.transfer \in 0..(MaxFamilies - 1)

\* The constructed Renderer (or main at its event loop): any number of
\* swapchain images, device 0 and family 0 selected for both roles.
Init ==
  /\ program \in {"renderer", "main"}
  /\ physical_device = 0
  /\ queue_family_indices = [graphics |-> 0, transfer |-> 0]
  /\ \E n \in 1..MaxImageCount : Constructed(n)

Next ==
  \/ RenderCall
  \/ WaitForFences
  \/ ResetFences
  \/ AcquireNextImage
  \/ ResetCommandBuffer
  \/ BeginCommandBuffer
  \/ RecordCommands
  \/ EndCommandBuffer
  \/ QueueSubmit
  \/ QueuePresent
  \/ IncrementFrameNumber
  \/ AcquireCompletes
  \/ GpuBeginSubmit
  \/ GpuCompleteSubmit
  \/ GpuPresent
  \/ DropCall
  \/ DeviceWaitIdle
  \/ DropDestroy
  \/ CloseRequested
  \/ MainDestroy

Spec == Init /\ [][Next]_vars

\* ------------------------------------------- runs in which no call fails
\* The statements of render() when the API call succeeds: the wait returns
\* once the fence is signaled, the acquire once an image is available.
WaitForFencesOk == WaitForFences /\ pc' = "reset_fences"
ResetFencesOk == ResetFences /\ pc' = "acquire_next_image"
AcquireNextImageOk == AcquireNextImage /\ pc' = "reset_command_buffer"
ResetCommandBufferOk == ResetCommandBuffer /\ pc' = "begin_command_buffer"
BeginCommandBufferOk == BeginCommandBuffer /\ pc' = "record"
EndCommandBufferOk == EndCommandBuffer /\ pc' = "queue_submit"
QueueSubmitOk == QueueSubmit /\ pc' = "queue_present"
QueuePresentOk == QueuePresent /\ pc' = "increment"

InitLive == Init /\ program = "renderer"

NextLive ==
  \/ RenderCall
  \/ WaitForFencesOk
  \/ ResetFencesOk
  \/ AcquireNextImageOk
  \/ ResetCommandBufferOk
  \/ BeginCommandBufferOk
  \/ RecordCommands
  \/ EndCommandBufferOk
  \/ QueueSubmitOk
  \/ QueuePresentOk
  \/ IncrementFrameNumber
  \/ AcquireCompletes
  \/ GpuBeginSubmit
  \/ GpuCompleteSubmit
  \/ GpuPresent

\* The thread inside render() runs on to its next statement, and the GPU
\* and the presentation engine complete what they are able to complete.
\* Nothing obliges the caller to call render() again.
FairLive ==
  /\ WF_vars(WaitForFencesOk)
  /\ WF_vars(ResetFencesOk)
  /\ WF_vars(AcquireNextImageOk)
  /\ WF_vars(ResetCommandBufferOk)
  /\ WF_vars(BeginCommandBufferOk)
  /\ WF_vars(RecordCommands)
  /\ WF_vars(EndCommandBufferOk)
  /\ WF_vars(QueueSubmitOk)
  /\ WF_vars(QueuePresentOk)
  /\ WF_vars(IncrementFrameNumber)
  /\ WF_vars(AcquireCompletes)
  /\ WF_vars(GpuBeginSubmit)
  /\ WF_vars(GpuCompleteSubmit)
  /\ WF_vars(GpuPresent)

SpecLive == InitLive /\ [][NextLive]_vars /\ FairLive

\* ------------------------------------------------------------ type check
TypeOK ==
  /\ program \in {"renderer", "main"}
  /\ frame_number \in {None} \cup 0..MaxFrames
  /\ render_fence \in {"none", "signaled", "unsignaled"}
  /\ present_semaphore \in {"none", "unsignaled", "signal_pending", "signaled"}
  /\ render_semaphore \in {"none", "unsignaled", "signal_pending", "signaled"}
  /\ command_buffer \in {"none", "initial", "recording", "executable",
                         "pending", "invalid"}
  /\ Len(swapchain_images) = Len(image_state)
  /\ Len(graphics_queue) <= 3

\* ================================================================ claims
Errors == {"Err(TIMEOUT)", "Err(ERROR)"}

\* The queued submissions the GPU has not completed.
PendingSubmits ==
  {i \in DOMAIN graphics_queue : graphics_queue[i].op = "submit"}

\* The statements of render() that reset, record or submit the command buffer.
CommandBufferSteps ==
  {"reset_command_buffer", "begin_command_buffer", "record",
   "end_command_buffer", "queue_submit"}

\* C1: at most one frame is in flight: the graphics queue never holds two
\* submissions, and whenever render() is about to reset, begin, record, end
\* or submit the command buffer, no earlier submission of it is still
\* pending or executing on the GPU.
C1_OneFrameInFlight ==
  /\ Cardinality(PendingSubmits) <= 1
  /\ pc \in CommandBufferSteps =>
       /\ PendingSubmits = {}
       /\ command_buffer # "pending"

\* A later call is about to submit after an earlier call's submission.
C1_Witness ==
  /\ pc = "queue_submit"
  /\ ok_calls >= 1
  /\ command_buffer = "executable"

\* C2: frame_number counts the render() calls that returned Ok: it is 0 in
\* the constructed Renderer and N after N successful calls.
C2_FrameNumberCountsOkCalls ==
  program = "renderer" => frame_number = ok_calls

\* Two calls have succeeded and a third has failed in between or after.
C2_Witness ==
  /\ ok_calls = 2
  /\ pc = "idle"
  /\ render_result.value \in Errors

\* C3: a render() call that returns an error, from whichever statement,
\* leaves frame_number at the value it had when the call began; a timed-out
\* acquire_next_image returns the TIMEOUT error.
C3_FailedCallKeepsFrameNumber ==
  (pc = "idle" /\ render_result.value # "none") =>
    /\ render_result.at = "acquire_next_image" => render_result.value \in Errors
    /\ render_result.value \in Errors => frame_number = frame_number_at_call

\* The acquire step of a call timed out after an earlier call succeeded.
C3_Witness ==
  /\ pc = "idle"
  /\ render_result = [value |-> "Err(TIMEOUT)", at |-> "acquire_next_image"]
  /\ frame_number_at_call = 1
  /\ frame_number = 1

\* C4: teardown issues no destroy call while a submission is still pending
\* or executing: from the first destroy call on, the graphics queue is empty.
C4_DestroyOnlyWhenIdle ==
  pc \in {"destroy", "dropped", "close_requested", "exited"} =>
    /\ graphics_queue = <<>>
    /\ command_buffer # "pending"

\* Teardown destroys after two calls were submitted and completed.
C4_Witness ==
  /\ pc = "destroy"
  /\ drop_index = 1
  /\ ok_calls >= 2
  /\ command_buffer = "invalid"

\* The position of an object's kind in the teardown order of the claim.
TeardownRank(o) ==
  CASE o.obj \in {"triangle_vert_shader", "triangle_frag_shader"} -> 0
    [] o.obj \in {"render_semaphore", "present_semaphore", "render_fence"} -> 1
    [] o.obj = "command_pool" -> 2
    [] o.obj = "image_view" -> 3
    [] o.obj = "swapchain" -> 4
    [] o.obj = "device" -> 5
    [] o.obj = "surface" -> 6
    [] o.obj = "instance" -> 7

Range(f) == {f[i] : i \in DOMAIN f}

\* C5: teardown destroys the semaphores and the fence, then the command
\* pool, then every image view, then the swapchain, then the device, then
\* the surface, then the instance; when it is done each was destroyed once.
C5_TeardownOrder ==
  /\ \A i, j \in DOMAIN destroyed :
       i < j => /\ TeardownRank(destroyed[i]) <= TeardownRank(destroyed[j])
                /\ destroyed[i] # destroyed[j]
  /\ pc = "dropped" =>
       Range(destroyed) = Range(created)
  /\ pc = "exited" =>
       Range(destroyed) = Range(created)

\* The Renderer with three image views has been torn down completely.
C5_Witness ==
  /\ pc = "dropped"
  /\ Len(swapchain_image_views) = 3
  /\ destroyed[Len(destroyed)] = Obj("instance")
  /\ destroyed[Len(destroyed) - 2] = Obj("device")

\* ------------------------------------------------- queue family claims
SetMin(S) == CHOOSE x \in S : \A y \in S : x <= y
SetMax(S) == CHOOSE x \in S : \A y \in S : x >= y
FirstOrNone(S) == IF S = {} THEN None ELSE SetMin(S)
LastOrNone(S) == IF S = {} THEN None ELSE SetMax(S)

\* The 0-based indices of the families of qfp that satisfy P.
Families(qfp, P(_)) == {i \in 0..(Len(qfp) - 1) : P(qfp[i + 1])}

HasGraphicsAndPresent(f) == f.graphics /\ f.surface_support = "true"
HasTransfer(f) == f.transfer
HasDedicatedTransfer(f) == f.transfer /\ ~f.graphics
HasQueues(f) == f.queue_count > 0
UsableGraphicsAndPresent(f) == HasQueues(f) /\ HasGraphicsAndPresent(f)
UsableTransfer(f) == HasQueues(f) /\ HasTransfer(f)
UsableDedicatedTransfer(f) == HasQueues(f) /\ HasDedicatedTransfer(f)

\* The loop of find_queue_family_indices has run to its end.
ResolverDone == pc = "find_queue_family_indices_ret"

\* C6 as stated: the graphics role gets the first family, in index order,
\* that has the graphics bit and presentation support.
C6_FirstGraphicsFamily ==
  ResolverDone =>
    graphics_qf_index_opt =
      FirstOrNone(Families(queue_family_properties, HasGraphicsAndPresent))

\* C6 amended: the graphics role gets the last family, in index order, that
\* has at least one queue, the graphics bit and presentation support.
C6_LastGraphicsFamily ==
  ResolverDone =>
    graphics_qf_index_opt =
      LastOrNone(Families(queue_family_properties, UsableGraphicsAndPresent))

\* Two families qualify for the graphics role and the later one is selected.
C6_Witness ==
  /\ ResolverDone
  /\ Cardinality(Families(queue_family_properties, UsableGraphicsAndPresent)) >= 2
  /\ graphics_qf_index_opt = 2
  /\ UsableGraphicsAndPresent(queue_family_properties[1])

\* The transfer selection the claim describes, over the families that
\* satisfy `dedicated` and `any`.
TransferChoice(qfp, dedicated(_), any(_)) ==
  IF Families(qfp, dedicated) # {}
  THEN SetMax(Families(qfp, dedicated))
  ELSE FirstOrNone(Families(qfp, any))

\* C7 as stated: the transfer family has the transfer bit and is the last
\* family with the transfer bit and without the graphics bit, or else the
\* first family with the transfer bit.
C7_TransferFamily ==
  (ResolverDone /\ transfer_qf_index_opt # None) =>
    /\ queue_family_properties[transfer_qf_index_opt + 1].transfer
    /\ transfer_qf_index_opt =
         TransferChoice(queue_family_properties, HasDedicatedTransfer,
                        HasTransfer)

\* C7 amended: the same, counting only families with at least one queue.
C7_TransferFamilyWithQueues ==
  ResolverDone =>
    /\ transfer_qf_index_opt # None =>
         queue_family_properties[transfer_qf_index_opt + 1].transfer
    /\ transfer_qf_index_opt =
         TransferChoice(queue_family_properties, UsableDedicatedTransfer,
                        UsableTransfer)

\* A graphics+transfer family comes first, two dedicated transfer families
\* follow, and the last of them is selected.
C7_Witness ==
  /\ ResolverDone
  /\ Len(queue_family_properties) = 3
  /\ queue_family_properties[1].graphics /\ UsableTransfer(queue_family_properties[1])
  /\ UsableDedicatedTransfer(queue_family_properties[2])
  /\ UsableDedicatedTransfer(queue_family_properties[3])
  /\ transfer_qf_index_opt = 2

\* C8 as stated: when no family qualifies for the graphics role or none for
\* the transfer role, the resolver returns an error result to its caller
\* (and Renderer::new does not go on to create the device).
C8_NoFamilyIsAnErrorResult ==
  [][(/\ ResolverDone
      /\ \/ Families(queue_family_properties, UsableGraphicsAndPresent) = {}
         \/ Families(queue_family_properties, UsableTransfer) = {})
     => pc' = "new_err"]_vars

\* ------------------------------------------------------ swapchain claims
\* The create info of create_swapchain has been built.
CreateInfoBuilt == pc = "create_swapchain_khr"

\* C9: with 0 < min_image_count <= max_image_count the requested image
\* count is 3 clamped into [min, max]: min when min > 3, max when max < 3,
\* 3 otherwise.
C9_ImageCountClamped ==
  (CreateInfoBuilt /\ surface_capabilities.max_image_count > 0) =>
    LET lo == surface_capabilities.min_image_count
        hi == surface_capabilities.max_image_count
        n == swapchain_create_info.min_image_count
    IN /\ lo <= n /\ n <= hi
       /\ n = (IF lo > 3 THEN lo ELSE IF hi < 3 THEN hi ELSE 3)

\* min = 4, max = 4 requests 4 images.
C9_Witness ==
  /\ CreateInfoBuilt
  /\ surface_capabilities = [min_image_count |-> 4, max_image_count |-> 4]
  /\ swapchain_create_info.min_image_count = 4

\* C10 as stated: with max_image_count = 0 no upper clamp applies: the
\* requested image count is max(3, min_image_count), never 0.
C10_UnboundedMaxIsNoClamp ==
  (CreateInfoBuilt /\ surface_capabilities.max_image_count = 0) =>
    /\ swapchain_create_info.min_image_count =
         Max(3, surface_capabilities.min_image_count)
    /\ swapchain_create_info.min_image_count # 0

\* C11: once the swapchain is created, swapchain_image_views has the length
\* of swapchain_images and the view at every index is a view of the image at
\* that index; nothing after the creation changes either sequence.
C11_ViewsMatchImages ==
  /\ Len(swapchain_image_views) = Len(swapchain_images)
  /\ \A i \in DOMAIN swapchain_images :
       swapchain_image_views[i].image = swapchain_images[i]

C11_Witness ==
  /\ pc = "idle"
  /\ Len(swapchain_images) = 3
  /\ swapchain_image_views[3].image = swapchain_images[3]

\* The 0-based positions of the discrete GPUs in a device list.
DiscreteDevices(pds) == {i - 1 : i \in {j \in DOMAIN pds : pds[j] = "DISCRETE_GPU"}}

\* C12: for every non-empty device list, find_physical_device returns the
\* first device of type DISCRETE_GPU in enumeration order when there is
\* one, and the first enumerated device otherwise.
C12_FirstDiscreteElseFirst ==
  /\ pc = "find_physical_device_ret" =>
       /\ physical_devices # <<>>
       /\ physical_device =
            IF DiscreteDevices(physical_devices) # {}
            THEN SetMin(DiscreteDevices(physical_devices))
            ELSE 0
  /\ (pc = "new_panic" /\ physical_device = None) => physical_devices = <<>>

C12_Witness ==
  /\ pc = "find_physical_device_ret"
  /\ physical_devices = <<"INTEGRATED_GPU", "DISCRETE_GPU", "DISCRETE_GPU">>
  /\ physical_device = 1

\* create_swapchain of renderer.rs is running.
InCreateSwapchain ==
  /\ program = "renderer"
  /\ pc \in {"create_swapchain", "create_swapchain_khr"}

\* C13 as stated: whatever underlying call fails or comes back empty during
\* create_swapchain (capability query, format query or empty format list,
\* swapchain creation, image retrieval, creation of any image view), the
\* function leaves by returning an error result to its caller: a step of
\* create_swapchain either goes on with the creation or ends in new_err.
C13_FailureIsAnErrorResult ==
  [][InCreateSwapchain =>
       pc' \in {"create_swapchain_khr", "create_swapchain_ret", "new_err"}]_vars

\* ------------------------------------------------------- per-frame claims
\* C14 as stated: in every render cycle the submitted command buffer does
\* not start its color attachment output before the acquisition of its
\* image has completed, and the present of that image does not start before
\* the submitted rendering has completed: while a submission is queued or
\* executing its image has not been handed back by a present, and while it
\* is executing the acquisition of its image is complete.
C14_SemaphoresOrderGpuWork ==
  \A k \in PendingSubmits :
    /\ graphics_queue[k].stage = "executing" =>
         image_state[graphics_queue[k].image + 1] # "acquiring"
    /\ image_state[graphics_queue[k].image + 1] \in {"acquiring", "acquired"}

\* C15: the frame loop does not deadlock: when every API call succeeds and
\* the GPU and the presentation engine complete what is queued, every
\* render() call, the first one after construction included, returns Ok.
C15_EveryCallReturnsOk ==
  (render_result = Running) ~> (pc = "idle" /\ render_result.value = "Ok")

C15_Witness ==
  /\ pc = "idle"
  /\ render_result.value = "Ok"
  /\ ok_calls = 2
  /\ Len(swapchain_images) = 1

\* The statements of render() in program order.
RenderSteps ==
  <<"wait_for_fences", "reset_fences", "acquire_next_image",
    "reset_command_buffer", "begin_command_buffer", "record",
    "end_command_buffer", "queue_submit", "queue_present", "increment">>

IsPrefix(s, t) == Len(s) <= Len(t) /\ s = SubSeq(t, 1, Len(s))

RenderPcs == {RenderSteps[i] : i \in DOMAIN RenderSteps}

\* C16: a render() call that returns Ok has executed exactly one full cycle,
\* every step once and in the order wait for the fence, reset the fence,
\* acquire, reset and record the command buffer, submit, present, increment;
\* while a call runs its steps so far are the first steps of that order and
\* its next statement is the next step; no step runs unless a call is
\* running, so the renderer is idle when the call returns and the next
\* cycle starts only with the next call.
C16_OneFullCycleInOrder ==
  /\ (pc = "idle" /\ render_result.value = "Ok") => steps = RenderSteps
  /\ pc \in RenderPcs =>
       /\ render_result = Running
       /\ IsPrefix(steps, RenderSteps)
       /\ Len(steps) < Len(RenderSteps)
       /\ pc = RenderSteps[Len(steps) + 1]
  /\ render_result = Running => pc \in RenderPcs

C16_Witness ==
  /\ pc = "idle"
  /\ render_result.value = "Ok"
  /\ steps = RenderSteps
  /\ ok_calls = 2

\* The GPU-side state a failing step of render() leaves alone.
FailingStepLeavesAlone ==
  UNCHANGED <<render_fence, present_semaphore, render_semaphore, image_state,
              command_buffer, recorded, frame_number>>

\* C17: a failing step makes the same call return the error at once: the
\* steps the call executed are the first steps of the cycle, each once (no
\* retry), the failing step is the last of them, and the failing step
\* itself changes nothing but the call's return; in particular a fence wait
\* that expires returns the error with the fence not reset and nothing
\* acquired, recorded, submitted or presented by this call.
C17_FailureReturnsAtOnce ==
  /\ [](\A i, j \in DOMAIN steps : steps[i] = steps[j] => i = j)
  /\ []((pc = "idle" /\ render_result.value \in Errors) =>
          /\ steps # <<>>
          /\ IsPrefix(steps, RenderSteps)
          /\ steps[Len(steps)] = render_result.at)
  /\ [][(pc \in RenderPcs /\ render_result'.value \in Errors) =>
          /\ pc' = "idle"
          /\ render_result'.at = pc
          /\ (pc # "queue_present" => graphics_queue' = graphics_queue)
          /\ FailingStepLeavesAlone]_vars
  /\ []((pc = "idle" /\ render_result = [value |-> "Err(TIMEOUT)",
                                         at |-> "wait_for_fences"]) =>
          steps = <<"wait_for_fences">>)

C17_Witness ==
  /\ pc = "idle"
  /\ render_result = [value |-> "Err(TIMEOUT)", at |-> "wait_for_fences"]
  /\ steps = <<"wait_for_fences">>
  /\ render_fence = "unsignaled"
  /\ PendingSubmits # {}

\* render() returned an error from a step after reset_fences and before an
\* accepted submission.
FailedBeforeSubmission ==
  /\ pc = "idle"
  /\ render_result.value \in Errors
  /\ render_result.at \in {"acquire_next_image", "reset_command_buffer",
                           "begin_command_buffer", "end_command_buffer",
                           "queue_submit"}

\* No call is past its fence wait, the fence is unsignaled and no submission
\* that would signal it is queued.
FenceDead ==
  /\ program = "renderer"
  /\ pc \notin (RenderPcs \ {"wait_for_fences"})
  /\ render_fence = "unsignaled"
  /\ PendingSubmits = {}

\* C18: a render() call that fails after resetting render_fence and before a
\* submission was accepted (acquire, command buffer reset/begin/end, submit)
\* leaves the fence unsignaled with nothing queued that would signal it; from
\* then on this stays so for ever: no later call gets past its fence wait
\* (it returns the error of the wait, the timeout of a fence that is never
\* signaled), none reaches the acquire, and frame_number never changes.
C18_FenceNeverSignaledAgain ==
  /\ [](FailedBeforeSubmission => FenceDead)
  /\ [][FenceDead =>
          /\ FenceDead'
          /\ frame_number' = frame_number
          /\ ok_calls' = ok_calls
          /\ render_result' \in
               {render_result, Running,
                [value |-> "Err(TIMEOUT)", at |-> "wait_for_fences"],
                [value |-> "Err(ERROR)", at |-> "wait_for_fences"]}]_vars

C18_Witness ==
  /\ FenceDead
  /\ pc = "idle"
  /\ render_result = [value |-> "Err(TIMEOUT)", at |-> "wait_for_fences"]
  /\ frame_number = 1

\* The layout of `image` after the commands cmds ran on it from `layout`:
\* a barrier whose old layout is not the current one leaves it "invalid".
RECURSIVE LayoutAfter(_, _, _)
LayoutAfter(cmds, image, layout) ==
  IF cmds = <<>> THEN layout
  ELSE LET c == Head(cmds) IN
    LayoutAfter(Tail(cmds), image,
      IF c.cmd = "pipeline_barrier" /\ c.image = image
      THEN IF c.old_layout \in {"UNDEFINED", layout} THEN c.new_layout
           ELSE "invalid"
      ELSE layout)

\* The command buffer of the current call is recorded.
CommandsRecorded ==
  pc \in {"end_command_buffer", "queue_submit", "queue_present", "increment"}

\* C19: the commands a render() call records are, in this order, a barrier
\* taking the acquired image from UNDEFINED to COLOR_ATTACHMENT_OPTIMAL, the
\* render pass on the view of that image, and a barrier taking the same
\* image from COLOR_ATTACHMENT_OPTIMAL to PRESENT_SRC_KHR; the image of both
\* barriers, the image behind the cleared view and the index given to
\* queue_present are all the image acquire_next_image handed out, so the
\* commands leave the presented image in PRESENT_SRC_KHR.
C19_SameImageBarrieredClearedPresented ==
  /\ [](CommandsRecorded =>
          LET image == swapchain_images[swapchain_image_index + 1] IN
            /\ Len(recorded) = 4
            /\ recorded[1] = [cmd |-> "pipeline_barrier", image |-> image,
                              old_layout |-> "UNDEFINED",
                              new_layout |-> "COLOR_ATTACHMENT_OPTIMAL"]
            /\ recorded[2].cmd = "begin_rendering"
            /\ recorded[2].image = image
            /\ recorded[3].cmd = "end_rendering"
            /\ recorded[4] = [cmd |-> "pipeline_barrier", image |-> image,
                              old_layout |-> "COLOR_ATTACHMENT_OPTIMAL",
                              new_layout |-> "PRESENT_SRC_KHR"]
            /\ swapchain_image_views[swapchain_image_index + 1].image = image
            /\ LayoutAfter(recorded, image, "UNDEFINED") = "PRESENT_SRC_KHR"
            /\ \A other \in DOMAIN swapchain_images :
                 swapchain_images[other] # image =>
                   LayoutAfter(recorded, swapchain_images[other], "UNDEFINED")
                     = "UNDEFINED")
  /\ [](pc \in {"reset_command_buffer", "begin_command_buffer", "record",
                "end_command_buffer", "queue_submit", "queue_present"} =>
          image_state[swapchain_image_index + 1] \in {"acquiring", "acquired"})
  /\ [][(pc = "queue_present" /\ pc' = "increment") =>
          /\ Len(graphics_queue') = Len(graphics_queue) + 1
          /\ graphics_queue'[Len(graphics_queue')] =
               [op |-> "present", stage |-> "queued",
                image |-> swapchain_image_index]]_vars

C19_Witness ==
  /\ pc = "increment"
  /\ swapchain_image_index = 1
  /\ recorded[4].image = swapchain_images[2]
  /\ recorded[2].image = swapchain_images[2]
  /\ \E k \in DOMAIN graphics_queue :
       graphics_queue[k].op = "present" /\ graphics_queue[k].image = 1

\* -------------------------------------------------------- teardown claims
\* The objects the Renderer owns after construction: all but the two shader
\* modules, which Renderer::new destroys itself.
IsOwned(o) == TeardownRank(o) # 0

Reverse(s) == [i \in 1..Len(s) |-> s[Len(s) + 1 - i]]

PosIn(s, x) == CHOOSE i \in DOMAIN s : s[i] = x

IsImageView(o) == o.obj = "image_view"

IsSyncObject(o) == TeardownRank(o) = 1

\* C20 as stated: teardown destroys the owned objects in the strict reverse
\* of their creation order, the two semaphores and the fence included.
C20_StrictReverseCreationOrder ==
  pc = "dropped" =>
    SelectSeq(destroyed, IsOwned) = Reverse(SelectSeq(created, IsOwned))

\* C20, amended: teardown destroys every owned object, and of two owned
\* objects of different kinds (sync objects, command pool, image views,
\* swapchain, device, surface, instance) the one created later is destroyed
\* first; within a kind the order is that of the drop() statements: the sync
\* objects go as render_semaphore, present_semaphore, render_fence (created
\* as present_semaphore, render_semaphore, render_fence) and the image views
\* go in their creation order.
C20_ReverseCreationOrderByKind ==
  /\ \A i, j \in DOMAIN destroyed :
       (/\ i < j
        /\ IsOwned(destroyed[i]) /\ IsOwned(destroyed[j])
        /\ TeardownRank(destroyed[i]) # TeardownRank(destroyed[j]))
       => PosIn(created, destroyed[i]) > PosIn(created, destroyed[j])
  /\ pc = "dropped" =>
       /\ Range(SelectSeq(destroyed, IsOwned)) = Range(SelectSeq(created, IsOwned))
       /\ Len(SelectSeq(destroyed, IsOwned)) = Len(SelectSeq(created, IsOwned))
       /\ SelectSeq(destroyed, IsSyncObject) =
            <<Obj("render_semaphore"), Obj("present_semaphore"),
              Obj("render_fence")>>
       /\ SelectSeq(created, IsSyncObject) =
            <<Obj("present_semaphore"), Obj("render_semaphore"),
              Obj("render_fence")>>
       /\ SelectSeq(destroyed, IsImageView) = SelectSeq(created, IsImageView)

C20_Witness ==
  /\ pc = "dropped"
  /\ Len(swapchain_image_views) = 2
  /\ PosIn(created, Obj("render_fence")) > PosIn(created, Obj("render_semaphore"))
  /\ PosIn(destroyed, Obj("render_fence")) > PosIn(destroyed, Obj("render_semaphore"))
  /\ PosIn(destroyed, ImageViewObj(0)) < PosIn(destroyed, ImageViewObj(1))

\* ------------------------------------------------- ownership on exit paths
\* Construction or shutdown has come to its end, one way or the other.
ExitPath == pc \in {"new_err", "new_panic", "dropped", "drop_panic"}

\* C21 as stated: on every exit path of construction and shutdown (the
\* Renderer was built and later torn down, or Renderer::new failed after
\* creating some objects) every object that was created has been destroyed
\* exactly once and none is left alive.
C21_NothingLeftAlive ==
  (program = "renderer" /\ ExitPath) =>
    /\ Range(destroyed) = Range(created)
    /\ Len(destroyed) = Len(created)

\* No physical device has been selected.
NoDeviceSelected == physical_device = None

\* C22: an empty list of enumerated devices is fatal: find_physical_device
\* never returns to Renderer::new with an empty list, the step that finds
\* the list empty ends in the panic, the panic is final, and as long as no
\* device is selected neither queue resolution nor device creation has run.
C22_EmptyDeviceListIsFatal ==
  /\ [](pc = "find_physical_device_ret" =>
          physical_devices # <<>> /\ ~NoDeviceSelected)
  /\ [](NoDeviceSelected =>
          /\ pc \in {"create_instance", "create_surface",
                     "find_physical_device", "new_err", "new_panic"}
          /\ queue_family_properties = <<>>
          /\ queue_family_indices = NoIndices
          /\ Obj("device") \notin Range(created))
  /\ [][(/\ pc = "find_physical_device"
         /\ pc' # "new_err"
         /\ physical_devices' = <<>>) => pc' = "new_panic"]_vars
  /\ [][pc = "new_panic" => UNCHANGED vars]_vars

C22_Witness ==
  /\ pc = "new_panic"
  /\ NoDeviceSelected
  /\ physical_devices = <<>>
  /\ created = <<Obj("instance"), Obj("surface")>>

\* ------------------------------------------------------ semaphore reuse
\* The operations queued on the graphics queue that have not yet passed
\* their semaphore wait: submissions wait for present_semaphore, presents
\* for render_semaphore.
QueuedWaits(op) ==
  {k \in DOMAIN graphics_queue :
     graphics_queue[k].op = op /\ graphics_queue[k].stage = "queued"}

\* A new signal operation on the semaphore is in order: it is unsignaled
\* with no signal pending, or its one signal is about to be consumed by a
\* wait that is already queued.
FreeForSignal(semaphore, waiting_op) ==
  \/ semaphore = "unsignaled"
  \/ semaphore = "signaled" /\ QueuedWaits(waiting_op) # {}

\* C23 as stated: across any sequence of render() calls, failing ones
\* included, no semaphore is given a new signal operation while it is still
\* signaled or has a signal pending that no wait consumes: present_semaphore
\* is free at every acquire_next_image and render_semaphore is free at every
\* queue_submit.
C23_SemaphoreFreeWhenSignaled ==
  /\ pc = "acquire_next_image" => FreeForSignal(present_semaphore, "submit")
  /\ pc = "queue_submit" => FreeForSignal(render_semaphore, "present")

\* --------------------------------------------------- device creation claim
\* C24 as stated: the queue create infos handed to device creation name
\* pairwise distinct queue family indices, whatever the resolver returned,
\* the graphics and the transfer role sharing one family included.
C24_QueueInfosDistinct ==
  (pc = "create_device" \/ Obj("device") \in Range(created)) =>
    LET infos == queue_infos(queue_family_indices) IN
      \A i, j \in DOMAIN infos :
        infos[i].queue_family_index = infos[j].queue_family_index => i = j

\* ------------------------------------------------------ view format claim
\* C25 as stated: for every list of supported surface formats the swapchain
\* is created with the format of the first entry and every image view is
\* created with that same format.
C25_ViewFormatIsSwapchainFormat ==
  pc = "create_swapchain_ret" =>
    /\ swapchain_create_info.image_format = surface_formats[1]
    /\ \A i \in DOMAIN swapchain_image_views :
         swapchain_image_views[i].format = swapchain_create_info.image_format

====
